---- MODULE Spec2Model ----
(***************************************************************************)
(* Model of the archived PropMaster smoke-test scripts:                    *)
(*   archived/old-utility-scripts/test_system.py  (7 probes, tally, exit)  *)
(*   archived/old-utility-scripts/quick_test.py   (3 probes, prints only)  *)
(* Each script is a straight-line sequence of blocking HTTP calls, each in *)
(* its own try/except.  The remote service is the environment: it answers  *)
(* every request with an HTTP status and a body, or the call raises.       *)
(***************************************************************************)
EXTENDS Integers, Sequences, FiniteSets, TLC

VARIABLES script, pc, phase, issued, resp, results, out, exit

vars == <<script, pc, phase, issued, resp, results, out, exit>>

\* Longest list of rows the REST endpoints return in the model.
MaxRows == 1

\* Number of try/except probe blocks in test_system.py and in quick_test.py.
NumProbes == 7
QuickProbes == 3

\* The status every status check compares with.
HTTP_OK == 200

(***************************************************************************)
(* Python values and expression results                                    *)
(***************************************************************************)
JNull == [t |-> "NoneType"]
JNum(n) == [t |-> "int", n |-> n]
JStr(s) == [t |-> "str", s |-> s]
JList(items) == [t |-> "list", items |-> items]
JObj(f) == [t |-> "dict", f |-> f]

\* An expression either yields a value or raises an exception of class cls
\* whose str() is text.
Ok(v) == [ok |-> TRUE, v |-> v]
Raise(cls, text) == [ok |-> FALSE, cls |-> cls, text |-> text]

Digit == <<"0", "1", "2", "3", "4", "5", "6", "7", "8", "9">>

\* f"{n}" for a non-negative int
RECURSIVE ToStr(_)
ToStr(n) == IF n < 10 THEN Digit[n + 1] ELSE ToStr(n \div 10) \o Digit[(n % 10) + 1]

\* f"{b}" for a bool
BoolStr(b) == IF b THEN "True" ELSE "False"

\* needle in hay, for two str
Contains(hay, needle) ==
    \E i \in 1..(Len(hay) - Len(needle) + 1) :
        SubSeq(hay, i, i + Len(needle) - 1) = needle

\* key in v
PyIn(key, v) ==
    CASE v.t = "dict" -> Ok(key \in DOMAIN v.f)
      [] v.t = "list" -> Ok(\E i \in 1..Len(v.items) :
                               v.items[i].t = "str" /\ v.items[i].s = key)
      [] v.t = "str" -> Ok(Contains(v.s, key))
      [] OTHER -> Raise("TypeError", "argument of type '" \o v.t \o "' is not iterable")

\* v[key] for a str key
PyItem(v, key) ==
    CASE v.t = "dict" -> IF key \in DOMAIN v.f THEN Ok(v.f[key])
                         ELSE Raise("KeyError", "'" \o key \o "'")
      [] v.t = "list" -> Raise("TypeError", "list indices must be integers or slices, not str")
      [] v.t = "str" -> Raise("TypeError", "string indices must be integers")
      [] OTHER -> Raise("TypeError", "'" \o v.t \o "' object is not subscriptable")

\* v[0]
PyFirst(v) ==
    CASE v.t = "list" -> IF Len(v.items) > 0 THEN Ok(v.items[1])
                         ELSE Raise("IndexError", "list index out of range")
      [] v.t = "str" -> IF Len(v.s) > 0 THEN Ok(JStr(SubSeq(v.s, 1, 1)))
                        ELSE Raise("IndexError", "string index out of range")
      [] v.t = "dict" -> Raise("KeyError", "0")
      [] OTHER -> Raise("TypeError", "'" \o v.t \o "' object is not subscriptable")

\* v.get(key, default)
PyGet(v, key, default) ==
    IF v.t = "dict"
    THEN Ok(IF key \in DOMAIN v.f THEN v.f[key] ELSE default)
    ELSE Raise("AttributeError", "'" \o v.t \o "' object has no attribute 'get'")

\* len(v), as a Python int
PyLen(v) ==
    CASE v.t = "list" -> Ok(JNum(Len(v.items)))
      [] v.t = "dict" -> Ok(JNum(Cardinality(DOMAIN v.f)))
      [] v.t = "str" -> Ok(JNum(Len(v.s)))
      [] OTHER -> Raise("TypeError", "object of type '" \o v.t \o "' has no len()")

\* f"{v}": str(v); containers are not spelled out element by element
PyStr(v) ==
    CASE v.t = "str" -> v.s
      [] v.t = "int" -> ToStr(v.n)
      [] v.t = "NoneType" -> "None"
      [] v.t = "list" -> IF Len(v.items) = 0 THEN "[]" ELSE "[...]"
      [] OTHER -> IF DOMAIN v.f = {} THEN "{}" ELSE "{...}"

\* bool(v)
PyTruthy(v) ==
    CASE v.t = "list" -> Len(v.items) > 0
      [] v.t = "dict" -> DOMAIN v.f # {}
      [] v.t = "str" -> Len(v.s) > 0
      [] v.t = "int" -> v.n # 0
      [] OTHER -> FALSE

\* v[:8]
PySlice8(v) ==
    CASE v.t = "str" -> Ok(JStr(SubSeq(v.s, 1, IF Len(v.s) < 8 THEN Len(v.s) ELSE 8)))
      [] v.t = "list" -> Ok(JList(SubSeq(v.items, 1, IF Len(v.items) < 8 THEN Len(v.items) ELSE 8)))
      [] OTHER -> Raise("TypeError", "'" \o v.t \o "' object is not subscriptable")

(***************************************************************************)
(* The environment: what a request can come back with                      *)
(***************************************************************************)
Statuses == {HTTP_OK, 500}

\* Exceptions a requests call raises: [cls, text = str(e)]
RequestErrors ==
    << [cls |-> "ReadTimeout", text |-> "Read timed out. (read timeout=10)"],
       [cls |-> "MemoryError", text |-> ""] >>

\* Python's exception hierarchy, as far as the modelled classes go
ExceptionClasses ==
    {"ReadTimeout", "MemoryError", "JSONDecodeError", "TypeError", "KeyError",
     "IndexError", "AttributeError"}
RequestExceptionClasses == {"ReadTimeout", "JSONDecodeError"}

\* A decoded-or-not response body of a JSON endpoint: response.json() yields
\* the value when the body is JSON and raises otherwise.
JsonBody(v) == [valid |-> TRUE, json |-> v]
NotJson == [valid |-> FALSE]

ResponseJson(body) ==
    IF body.valid THEN Ok(body.json)
    ELSE Raise("JSONDecodeError", "Expecting value: line 1 column 1 (char 0)")

\* response.text of the frontend pages
HtmlBodies ==
    << "<div id=\"root\"></div><script src=\"/assets/index.js\"></script>",
       "<div id=\"root\"></div>",
       "<script src=\"/assets/index.js\"></script>",
       "<h1>Not Found</h1>" >>

Row == JObj([id |-> JStr("abc123"), title |-> JStr("Fix sink")])
Rows(n) == JList([i \in 1..n |-> Row])

\* bodies of /functions/v1/get-mention-data
MentionBodies ==
    << JsonBody(JObj([data |-> JObj([properties |-> Rows(1), units |-> Rows(0),
                                     tenants |-> Rows(2)])])),
       JsonBody(JObj([data |-> JObj([properties |-> Rows(1)])])),
       JsonBody(JObj([error |-> JStr("boom")])),
       JsonBody(JObj([data |-> JNull])),
       JsonBody(JNull),
       NotJson >>

\* bodies of /rest/v1/tasks and /rest/v1/properties
TableBodies ==
    [n \in 1..(MaxRows + 1) |-> JsonBody(Rows(n - 1))]
    \o << JsonBody(JObj([message |-> JStr("permission denied")])),
          JsonBody(JNull),
          NotJson >>

\* bodies of /functions/v1/create-task
CreateBodies ==
    << JsonBody(JObj([data |-> JObj([tasks |-> Rows(1)])])),
       JsonBody(JObj([data |-> JObj([tasks |-> Rows(0)])])),
       JsonBody(JObj([data |-> JObj([tasks |-> JList(<<JObj([title |-> JStr("x")])>>)])])),
       JsonBody(JObj([data |-> JObj([task |-> Row])])),
       JsonBody(JObj([error |-> JStr("boom")])),
       NotJson >>

\* bodies of /functions/v1/create-task as quick_test.py reads them: the id is
\* sliced there, so an id that is a number matters
QuickCreateBodies ==
    CreateBodies
    \o << JsonBody(JObj([data |-> JObj([tasks |-> JList(<<JObj([id |-> JNum(7)])>>)])])) >>

Http(status, body) == [kind |-> "http", status |-> status, body |-> body]
Failed(e) == [kind |-> "raise", cls |-> e.cls, text |-> e.text]
NoResponse == [kind |-> "none"]

(***************************************************************************)
(* test_system.py                                                          *)
(***************************************************************************)
ProbeName ==
    << "Website is accessible",
       "Tasks page route exists",
       "React app structure present",
       "get-mention-data endpoint",
       "Fetch tasks from database",
       "Create task via API",
       "Fetch properties for linking" >>

\* One call test_result(name, passed, message)
Call(name, passed, message) == [name |-> name, passed |-> passed, message |-> message]

\* How a try body ends: the test_result calls it made, and whether it raised.
Returned(calls) == [calls |-> calls, raised |-> FALSE]
Raised(calls, cls, text) == [calls |-> calls, raised |-> TRUE, cls |-> cls, text |-> text]
Throw(x) == Raised(<<>>, x.cls, x.text)

\* test_result with the failed counter left alone
test_resultNoFail(res, name, passed, message) ==
    [ tests |-> Append(res.tests, [name |-> name, passed |-> passed, message |-> message]),
      passed |-> IF passed THEN res.passed + 1 ELSE res.passed,
      failed |-> res.failed ]

\* test_result with results["tests"].insert(0, ...) for append
test_resultPrepend(res, name, passed, message) ==
    [ tests |-> <<[name |-> name, passed |-> passed, message |-> message]>> \o res.tests,
      passed |-> IF passed THEN res.passed + 1 ELSE res.passed,
      failed |-> IF passed THEN res.failed ELSE res.failed + 1 ]

test_result(res, name, passed, message) ==
    [ tests |-> Append(res.tests, [name |-> name, passed |-> passed, message |-> message]),
      passed |-> IF passed THEN res.passed + 1 ELSE res.passed,
      failed |-> IF passed THEN res.failed ELSE res.failed + 1 ]

\* The calls of one probe, applied in order
RECURSIVE Record(_, _)
Record(res, calls) ==
    IF calls = <<>> THEN res
    ELSE Record(test_result(res, calls[1].name, calls[1].passed, calls[1].message),
                Tail(calls))

\* except requests.RequestException as e: ... for except Exception
ExceptHandlerNarrow(name, t) ==
    IF ~t.raised THEN [calls |-> t.calls, escaped |-> FALSE]
    ELSE IF t.cls \in RequestExceptionClasses
         THEN [calls |-> t.calls \o <<Call(name, FALSE, t.text)>>, escaped |-> FALSE]
         ELSE [calls |-> t.calls, escaped |-> TRUE]

\* except Exception as e: test_result(name, False, str(e))
ExceptHandler(name, t) ==
    IF ~t.raised THEN [calls |-> t.calls, escaped |-> FALSE]
    ELSE IF t.cls \in ExceptionClasses
         THEN [calls |-> t.calls \o <<Call(name, FALSE, t.text)>>, escaped |-> FALSE]
         ELSE [calls |-> t.calls, escaped |-> TRUE]

\* Tests 1 and 2: status check only
StatusTry(name, r) ==
    IF r.kind = "raise" THEN Raised(<<>>, r.cls, r.text)
    ELSE Returned(<<Call(name, r.status = HTTP_OK, "HTTP " \o ToStr(r.status))>>)

Test1Try(r) == StatusTry(ProbeName[1], r)
Test2Try(r) == StatusTry(ProbeName[2], r)

\* Test 3: substring checks on response.text
Test3Try(r) ==
    IF r.kind = "raise" THEN Raised(<<>>, r.cls, r.text)
    ELSE LET has_root == Contains(r.body, "id=\"root\"")
             has_js == Contains(r.body, ".js")
         IN Returned(<<Call(ProbeName[3], has_root /\ has_js,
                            "Root div: " \o BoolStr(has_root)
                                \o ", JS bundle: " \o BoolStr(has_js))>>)

\* len(d.get(key, []))
CountOf(d, key) ==
    LET g == PyGet(d, key, JList(<<>>))
    IN IF g.ok THEN PyLen(g.v) ELSE g

\* Test 4 reading 'data' with a default, as quick_test.py does
Test4TryLenient(r) ==
    IF r.kind = "raise" THEN Raised(<<>>, r.cls, r.text)
    ELSE IF r.status # HTTP_OK
    THEN Returned(<<Call(ProbeName[4], FALSE, "HTTP " \o ToStr(r.status))>>)
    ELSE LET data == ResponseJson(r.body) IN
         IF ~data.ok THEN Throw(data) ELSE
         LET d == PyGet(data.v, "data", JObj(<<>>)) IN
         IF ~d.ok THEN Throw(d) ELSE
         LET properties_count == CountOf(d.v, "properties") IN
         IF ~properties_count.ok THEN Throw(properties_count) ELSE
         LET units_count == CountOf(d.v, "units") IN
         IF ~units_count.ok THEN Throw(units_count) ELSE
         LET tenants_count == CountOf(d.v, "tenants") IN
         IF ~tenants_count.ok THEN Throw(tenants_count) ELSE
         Returned(<<Call(ProbeName[4], TRUE,
                         PyStr(properties_count.v) \o " properties, "
                             \o PyStr(units_count.v) \o " units, "
                             \o PyStr(tenants_count.v) \o " tenants")>>)

\* Test 4: get-mention-data
Test4Try(r) ==
    IF r.kind = "raise" THEN Raised(<<>>, r.cls, r.text)
    ELSE IF r.status # HTTP_OK
    THEN Returned(<<Call(ProbeName[4], FALSE, "HTTP " \o ToStr(r.status))>>)
    ELSE LET data == ResponseJson(r.body) IN
         IF ~data.ok THEN Throw(data) ELSE
         LET has == PyIn("data", data.v) IN
         IF ~has.ok THEN Throw(has) ELSE
         IF ~has.v
         THEN Returned(<<Call(ProbeName[4], FALSE, "Unexpected response format")>>)
         ELSE LET d == PyItem(data.v, "data") IN
              IF ~d.ok THEN Throw(d) ELSE
              LET properties_count == CountOf(d.v, "properties") IN
              IF ~properties_count.ok THEN Throw(properties_count) ELSE
              LET units_count == CountOf(d.v, "units") IN
              IF ~units_count.ok THEN Throw(units_count) ELSE
              LET tenants_count == CountOf(d.v, "tenants") IN
              IF ~tenants_count.ok THEN Throw(tenants_count) ELSE
              Returned(<<Call(ProbeName[4], TRUE,
                              PyStr(properties_count.v) \o " properties, "
                                  \o PyStr(units_count.v) \o " units, "
                                  \o PyStr(tenants_count.v) \o " tenants")>>)

\* Table read that records the pass before it decodes the body
TableTryEager(name, what, r) ==
    IF r.kind = "raise" THEN Raised(<<>>, r.cls, r.text)
    ELSE IF r.status # HTTP_OK
    THEN Returned(<<Call(name, FALSE, "HTTP " \o ToStr(r.status))>>)
    ELSE LET done == <<Call(name, TRUE, "Retrieved " \o what)>>
             rows == ResponseJson(r.body) IN
         IF ~rows.ok THEN Raised(done, rows.cls, rows.text) ELSE
         LET n == PyLen(rows.v) IN
         IF ~n.ok THEN Raised(done, n.cls, n.text) ELSE
         Returned(done)

\* Table read that decodes the body before it looks at the status
TableTryDecodeFirst(name, what, r) ==
    IF r.kind = "raise" THEN Raised(<<>>, r.cls, r.text)
    ELSE LET rows == ResponseJson(r.body) IN
         IF ~rows.ok THEN Throw(rows) ELSE
         IF r.status # HTTP_OK
         THEN Returned(<<Call(name, FALSE, "HTTP " \o ToStr(r.status))>>) ELSE
         LET n == PyLen(rows.v) IN
         IF ~n.ok THEN Throw(n) ELSE
         Returned(<<Call(name, TRUE, "Retrieved " \o PyStr(n.v) \o " " \o what)>>)

\* Tests 5 and 7: table reads
TableTry(name, what, r) ==
    IF r.kind = "raise" THEN Raised(<<>>, r.cls, r.text)
    ELSE IF r.status # HTTP_OK
    THEN Returned(<<Call(name, FALSE, "HTTP " \o ToStr(r.status))>>)
    ELSE LET rows == ResponseJson(r.body) IN
         IF ~rows.ok THEN Throw(rows) ELSE
         LET n == PyLen(rows.v) IN
         IF ~n.ok THEN Throw(n) ELSE
         Returned(<<Call(name, TRUE, "Retrieved " \o PyStr(n.v) \o " " \o what)>>)

Test5Try(r) == TableTry(ProbeName[5], "tasks", r)
Test7Try(r) == TableTry(ProbeName[7], "properties", r)

\* Test 6: create-task
Test6Try(r) ==
    IF r.kind = "raise" THEN Raised(<<>>, r.cls, r.text)
    ELSE IF r.status # HTTP_OK
    THEN Returned(<<Call(ProbeName[6], FALSE, "HTTP " \o ToStr(r.status))>>)
    ELSE LET data == ResponseJson(r.body) IN
         IF ~data.ok THEN Throw(data) ELSE
         LET has == PyIn("data", data.v) IN
         IF ~has.ok THEN Throw(has) ELSE
         IF ~has.v THEN Returned(<<Call(ProbeName[6], FALSE, "Task not created")>>) ELSE
         LET d == PyItem(data.v, "data") IN
         IF ~d.ok THEN Throw(d) ELSE
         LET hasTasks == PyIn("tasks", d.v) IN
         IF ~hasTasks.ok THEN Throw(hasTasks) ELSE
         IF ~hasTasks.v THEN Returned(<<Call(ProbeName[6], FALSE, "Task not created")>>) ELSE
         LET tasks == PyItem(d.v, "tasks") IN
         IF ~tasks.ok THEN Throw(tasks) ELSE
         LET created_task == PyFirst(tasks.v) IN
         IF ~created_task.ok THEN Throw(created_task) ELSE
         LET id == PyItem(created_task.v, "id") IN
         IF ~id.ok THEN Throw(id) ELSE
         Returned(<<Call(ProbeName[6], TRUE, "Task ID: " \o PyStr(id.v))>>)

\* if results['failed'] > 1 for > 0
SummaryExitOffByOne(res) == IF res.failed > 1 THEN 1 ELSE 0

\* if results['failed'] > 0: sys.exit(1) else: sys.exit(0)
SummaryExit(res) == IF res.failed > 0 THEN 1 ELSE 0

Init ==
    /\ script = "test_system"
    /\ pc = 1
    /\ phase = "ready"
    /\ issued = <<>>
    /\ resp = NoResponse
    /\ results = [passed |-> 0, failed |-> 0, tests |-> <<>>]
    /\ out = <<>>
    /\ exit = <<>>

\* The blocking requests.get / requests.post of probe pc is entered.
SendRequest ==
    /\ script = "test_system"
    /\ phase = "ready"
    /\ pc <= NumProbes
    /\ phase' = "waiting"
    /\ issued' = Append(issued, pc)
    /\ UNCHANGED <<script, pc, resp, results, out, exit>>

\* The rest of probe k's try/except, given what the request came back with.
\* An exception that no handler catches ends the interpreter with status 1.
Finish(k, r, t) ==
    LET o == ExceptHandler(ProbeName[k], t) IN
    /\ results' = Record(results, o.calls)
    /\ resp' = r
    /\ IF o.escaped
       THEN phase' = "crashed" /\ exit' = <<1>> /\ pc' = pc
       ELSE phase' = "ready" /\ exit' = exit /\ pc' = k + 1
    /\ UNCHANGED <<script, issued, out>>

\* Probe k's request is out.
Waiting(k) == script = "test_system" /\ phase = "waiting" /\ pc = k

\* Test 1: Website accessibility
Test1 ==
    /\ Waiting(1)
    /\ \/ \E s \in Statuses, i \in 1..Len(HtmlBodies) :
              LET r == Http(s, HtmlBodies[i]) IN Finish(1, r, Test1Try(r))
       \/ \E j \in 1..Len(RequestErrors) :
              LET r == Failed(RequestErrors[j]) IN Finish(1, r, Test1Try(r))

\* Test 2: Tasks page route
Test2 ==
    /\ Waiting(2)
    /\ \/ \E s \in Statuses, i \in 1..Len(HtmlBodies) :
              LET r == Http(s, HtmlBodies[i]) IN Finish(2, r, Test2Try(r))
       \/ \E j \in 1..Len(RequestErrors) :
              LET r == Failed(RequestErrors[j]) IN Finish(2, r, Test2Try(r))

\* Test 3: Index.html contains React app
Test3 ==
    /\ Waiting(3)
    /\ \/ \E s \in Statuses, i \in 1..Len(HtmlBodies) :
              LET r == Http(s, HtmlBodies[i]) IN Finish(3, r, Test3Try(r))
       \/ \E j \in 1..Len(RequestErrors) :
              LET r == Failed(RequestErrors[j]) IN Finish(3, r, Test3Try(r))

\* Test 4: Get mention data
Test4 ==
    /\ Waiting(4)
    /\ \/ \E s \in Statuses, i \in 1..Len(MentionBodies) :
              LET r == Http(s, MentionBodies[i]) IN Finish(4, r, Test4Try(r))
       \/ \E j \in 1..Len(RequestErrors) :
              LET r == Failed(RequestErrors[j]) IN Finish(4, r, Test4Try(r))

\* Test 5: Fetch tasks from database
Test5 ==
    /\ Waiting(5)
    /\ \/ \E s \in Statuses, i \in 1..Len(TableBodies) :
              LET r == Http(s, TableBodies[i]) IN Finish(5, r, Test5Try(r))
       \/ \E j \in 1..Len(RequestErrors) :
              LET r == Failed(RequestErrors[j]) IN Finish(5, r, Test5Try(r))

\* Test 6: Create a test task
Test6 ==
    /\ Waiting(6)
    /\ \/ \E s \in Statuses, i \in 1..Len(CreateBodies) :
              LET r == Http(s, CreateBodies[i]) IN Finish(6, r, Test6Try(r))
       \/ \E j \in 1..Len(RequestErrors) :
              LET r == Failed(RequestErrors[j]) IN Finish(6, r, Test6Try(r))

\* Test 7: Fetch properties for linking
Test7 ==
    /\ Waiting(7)
    /\ \/ \E s \in Statuses, i \in 1..Len(TableBodies) :
              LET r == Http(s, TableBodies[i]) IN Finish(7, r, Test7Try(r))
       \/ \E j \in 1..Len(RequestErrors) :
              LET r == Failed(RequestErrors[j]) IN Finish(7, r, Test7Try(r))

Summary ==
    /\ script = "test_system"
    /\ phase = "ready"
    /\ pc = NumProbes + 1
    /\ phase' = "exited"
    /\ exit' = <<SummaryExit(results)>>
    /\ UNCHANGED <<script, pc, issued, resp, results, out>>

Next ==
    \/ SendRequest
    \/ Test1 \/ Test2 \/ Test3 \/ Test4 \/ Test5 \/ Test6 \/ Test7
    \/ Summary

Spec == Init /\ [][Next]_vars

\* Every request carries a timeout, so each blocking call returns or raises.
FairSpec == Spec /\ WF_vars(Next)

(***************************************************************************)
(* quick_test.py                                                           *)
(***************************************************************************)
QuickHeader ==
    << "1. Testing get-mention-data...",
       "\n2. Testing tasks database...",
       "\n3. Testing task creation..." >>

\* How a try body of quick_test.py ends: the lines it printed, and whether
\* it raised.
QReturned(lines) == [lines |-> lines, raised |-> FALSE]
QRaised(lines, cls, text) == [lines |-> lines, raised |-> TRUE, cls |-> cls, text |-> text]

StatusLine(r) == "   Status: " \o ToStr(r.status)

\* except requests.RequestException as e: ... for except Exception
QuickExceptNarrow(t) ==
    IF ~t.raised THEN [lines |-> t.lines, escaped |-> FALSE]
    ELSE IF t.cls \in RequestExceptionClasses
         THEN [lines |-> t.lines \o <<"   Error: " \o t.text>>, escaped |-> FALSE]
         ELSE [lines |-> t.lines, escaped |-> TRUE]

\* except Exception as e: print(f"   Error: {e}")
QuickExcept(t) ==
    IF ~t.raised THEN [lines |-> t.lines, escaped |-> FALSE]
    ELSE IF t.cls \in ExceptionClasses
         THEN [lines |-> t.lines \o <<"   Error: " \o t.text>>, escaped |-> FALSE]
         ELSE [lines |-> t.lines, escaped |-> TRUE]

\* len(data.get("data", {}).get(key, []))
QuickCount(data, key) ==
    LET d == PyGet(data, "data", JObj(<<>>)) IN
    IF ~d.ok THEN d ELSE
    LET g == PyGet(d.v, key, JList(<<>>)) IN
    IF ~g.ok THEN g ELSE PyLen(g.v)

Quick1Try(r) ==
    IF r.kind = "raise" THEN QRaised(<<>>, r.cls, r.text) ELSE
    LET l1 == <<StatusLine(r)>> IN
    IF r.status # HTTP_OK THEN QReturned(l1) ELSE
    LET data == ResponseJson(r.body) IN
    IF ~data.ok THEN QRaised(l1, data.cls, data.text) ELSE
    LET props == QuickCount(data.v, "properties") IN
    IF ~props.ok THEN QRaised(l1, props.cls, props.text) ELSE
    LET units == QuickCount(data.v, "units") IN
    IF ~units.ok THEN QRaised(l1, units.cls, units.text) ELSE
    LET tenants == QuickCount(data.v, "tenants") IN
    IF ~tenants.ok THEN QRaised(l1, tenants.cls, tenants.text) ELSE
    QReturned(l1 \o <<"   Properties: " \o PyStr(props.v) \o ", Units: " \o PyStr(units.v)
                        \o ", Tenants: " \o PyStr(tenants.v)>>)

Quick2Try(r) ==
    IF r.kind = "raise" THEN QRaised(<<>>, r.cls, r.text) ELSE
    LET l1 == <<StatusLine(r)>> IN
    IF r.status # HTTP_OK THEN QReturned(l1) ELSE
    LET tasks == ResponseJson(r.body) IN
    IF ~tasks.ok THEN QRaised(l1, tasks.cls, tasks.text) ELSE
    LET n == PyLen(tasks.v) IN
    IF ~n.ok THEN QRaised(l1, n.cls, n.text) ELSE
    LET l2 == l1 \o <<"   Tasks found: " \o PyStr(n.v)>> IN
    IF ~PyTruthy(tasks.v) THEN QReturned(l2) ELSE
    LET first == PyFirst(tasks.v) IN
    IF ~first.ok THEN QRaised(l2, first.cls, first.text) ELSE
    LET title == PyGet(first.v, "title", JStr("N/A")) IN
    IF ~title.ok THEN QRaised(l2, title.cls, title.text) ELSE
    QReturned(l2 \o <<"   Sample task: " \o PyStr(title.v)>>)

Quick3Try(r) ==
    IF r.kind = "raise" THEN QRaised(<<>>, r.cls, r.text) ELSE
    LET l1 == <<StatusLine(r)>> IN
    IF r.status # HTTP_OK THEN QReturned(l1) ELSE
    LET data == ResponseJson(r.body) IN
    IF ~data.ok THEN QRaised(l1, data.cls, data.text) ELSE
    LET has == PyIn("data", data.v) IN
    IF ~has.ok THEN QRaised(l1, has.cls, has.text) ELSE
    IF ~has.v THEN QReturned(l1) ELSE
    LET d == PyItem(data.v, "data") IN
    IF ~d.ok THEN QRaised(l1, d.cls, d.text) ELSE
    LET hasTasks == PyIn("tasks", d.v) IN
    IF ~hasTasks.ok THEN QRaised(l1, hasTasks.cls, hasTasks.text) ELSE
    IF ~hasTasks.v THEN QReturned(l1) ELSE
    LET tasks == PyItem(d.v, "tasks") IN
    IF ~tasks.ok THEN QRaised(l1, tasks.cls, tasks.text) ELSE
    LET task == PyFirst(tasks.v) IN
    IF ~task.ok THEN QRaised(l1, task.cls, task.text) ELSE
    LET title == PyGet(task.v, "title", JStr("N/A")) IN
    IF ~title.ok THEN QRaised(l1, title.cls, title.text) ELSE
    LET l2 == l1 \o <<"   Created: " \o PyStr(title.v)>> IN
    LET id == PyGet(task.v, "id", JStr("N/A")) IN
    IF ~id.ok THEN QRaised(l2, id.cls, id.text) ELSE
    LET id8 == PySlice8(id.v) IN
    IF ~id8.ok THEN QRaised(l2, id8.cls, id8.text) ELSE
    QReturned(l2 \o <<"   Task ID: " \o PyStr(id8.v) \o "...">>)

\* The last statement of the module (the check mark that starts the printed
\* text is left out of the string); the interpreter then ends with the
\* status of a normal end of script.
QuickLastLine == "\nBackend API testing complete"
QuickExit == 0

InitQuick ==
    /\ script = "quick_test"
    /\ pc = 1
    /\ phase = "ready"
    /\ issued = <<>>
    /\ resp = NoResponse
    /\ results = [passed |-> 0, failed |-> 0, tests |-> <<>>]
    /\ out = <<"Testing PropMaster Backend APIs\n">>
    /\ exit = <<>>

\* print("<k>. Testing ...") and the blocking request of probe pc is entered.
QuickSend ==
    /\ script = "quick_test"
    /\ phase = "ready"
    /\ pc <= QuickProbes
    /\ out' = Append(out, QuickHeader[pc])
    /\ phase' = "waiting"
    /\ issued' = Append(issued, pc)
    /\ UNCHANGED <<script, pc, resp, results, exit>>

QuickFinish(k, r, t) ==
    LET o == QuickExcept(t) IN
    /\ out' = out \o o.lines
    /\ resp' = r
    /\ IF o.escaped
       THEN phase' = "crashed" /\ exit' = <<1>> /\ pc' = pc
       ELSE phase' = "ready" /\ exit' = exit /\ pc' = k + 1
    /\ UNCHANGED <<script, issued, results>>

QuickWaiting(k) == script = "quick_test" /\ phase = "waiting" /\ pc = k

\* Test 1: Get mention data
Quick1 ==
    /\ QuickWaiting(1)
    /\ \/ \E s \in Statuses, i \in 1..Len(MentionBodies) :
              LET r == Http(s, MentionBodies[i]) IN QuickFinish(1, r, Quick1Try(r))
       \/ \E j \in 1..Len(RequestErrors) :
              LET r == Failed(RequestErrors[j]) IN QuickFinish(1, r, Quick1Try(r))

\* Test 2: Fetch tasks
Quick2 ==
    /\ QuickWaiting(2)
    /\ \/ \E s \in Statuses, i \in 1..Len(TableBodies) :
              LET r == Http(s, TableBodies[i]) IN QuickFinish(2, r, Quick2Try(r))
       \/ \E j \in 1..Len(RequestErrors) :
              LET r == Failed(RequestErrors[j]) IN QuickFinish(2, r, Quick2Try(r))

\* Test 3: Create task
Quick3 ==
    /\ QuickWaiting(3)
    /\ \/ \E s \in Statuses, i \in 1..Len(QuickCreateBodies) :
              LET r == Http(s, QuickCreateBodies[i]) IN QuickFinish(3, r, Quick3Try(r))
       \/ \E j \in 1..Len(RequestErrors) :
              LET r == Failed(RequestErrors[j]) IN QuickFinish(3, r, Quick3Try(r))

QuickEnd ==
    /\ script = "quick_test"
    /\ phase = "ready"
    /\ pc = QuickProbes + 1
    /\ out' = Append(out, QuickLastLine)
    /\ phase' = "exited"
    /\ exit' = <<QuickExit>>
    /\ UNCHANGED <<script, pc, issued, resp, results>>

NextQuick == QuickSend \/ Quick1 \/ Quick2 \/ Quick3 \/ QuickEnd

SpecQuick == InitQuick /\ [][NextQuick]_vars

FairQuick == SpecQuick /\ WF_vars(NextQuick)

(***************************************************************************)
(* Properties                                                              *)
(***************************************************************************)
Tests == results.tests
TimeoutText == RequestErrors[1].text

\* Number of recorded results that carry probe k's name
Recorded(k) == Cardinality({i \in 1..Len(Tests) : Tests[i].name = ProbeName[k]})

\* Probe k is the last probe that ran to its end, and resp is what its
\* request came back with.
Completed(k) == Len(issued) = k /\ phase # "waiting"

HasKey(v, key) == v.t = "dict" /\ key \in DOMAIN v.f

\* C1: whatever the seven requests come back with, each probe that has run
\* has exactly one recorded result (and a probe that has not run has none),
\* and at the summary passed + failed is 7.
C1_OneResultPerProbe ==
    /\ \A k \in 1..NumProbes :
          Recorded(k) = IF k <= Len(issued) /\ ~(k = Len(issued) /\ phase = "waiting")
                        THEN 1 ELSE 0
    /\ phase = "exited" =>
          /\ Len(issued) = NumProbes
          /\ results.passed + results.failed = NumProbes

C1_Witness ==
    /\ phase = "exited"
    /\ Tests[1].message = TimeoutText
    /\ Tests[5].message = "HTTP 500"
    /\ Tests[6].message = "list index out of range"
    /\ Tests[7].passed

\* C2: at the summary the exit code is 1 exactly when failed > 0: 0 when
\* every recorded check passed, 1 when any check was false or raised.
C2_ExitCode ==
    phase = "exited" =>
        /\ exit \in {<<0>>, <<1>>}
        /\ exit = <<1>> <=> results.failed > 0
        /\ exit = <<0>> <=> \A i \in 1..Len(Tests) : Tests[i].passed
        /\ exit = <<1>> <=> \E i \in 1..Len(Tests) : ~Tests[i].passed

C2_Witness ==
    /\ phase = "exited"
    /\ exit = <<1>>
    /\ results.failed = 1
    /\ results.passed = NumProbes - 1
    /\ ~Tests[4].passed

\* C3: a probe whose request or decoding raised is recorded as exactly one
\* failed result whose message is the exception text, the exception does
\* not leave the runner, and that message is never empty.
C3_RaisedBecomesNonEmptyFailure ==
    \A k \in 1..NumProbes :
        (Completed(k) /\ resp.kind = "raise") =>
            /\ phase # "crashed"
            /\ Len(Tests) = k
            /\ ~Tests[k].passed
            /\ Tests[k].message = resp.text
            /\ Tests[k].message # ""

\* Steps the run has taken: requests entered, results recorded, exit.
Steps == Len(issued) + Len(Tests) + (IF phase = "exited" THEN 1 ELSE 0)

NoAbort ==
    /\ phase # "crashed"
    /\ phase = "waiting" => ENABLED Next
    /\ phase = "ready" => ENABLED (SendRequest \/ Summary)
    /\ \A k \in 1..Len(Tests) :
          ~Tests[k].passed =>
              /\ pc > k
              /\ \A j \in k..(pc - 1) : Tests[j].name = ProbeName[j]
    /\ phase = "exited" =>
          /\ pc = NumProbes + 1
          /\ Len(Tests) = NumProbes

\* C4: no failure of a probe ends the run: no exception leaves the runner;
\* until the run has exited its next step can always be taken (the request
\* of the next probe or the summary between probes, a completion while a
\* request is out) and every step is one more request, result or the exit,
\* so the run ends; every probe after a failed one is run and recorded, and
\* the run exits from the summary with a result for each of the 7 probes.
C4_FailureNeverAborts ==
    /\ NoAbort
    /\ [][NoAbort' /\ Steps' = Steps + 1]_vars

C4_Witness ==
    /\ phase = "exited"
    /\ results.failed = NumProbes
    /\ Tests[1].message = TimeoutText
    /\ Tests[2].message = "HTTP 500"
    /\ Tests[4].message = "Unexpected response format"

\* C5: every probe whose response has a status other than 200 is recorded
\* as failed, and the run goes on; probe 3 included.
C5_BadStatusFails ==
    \A k \in 1..NumProbes :
        (Completed(k) /\ resp.kind = "http" /\ resp.status # HTTP_OK) =>
            /\ phase # "crashed"
            /\ pc = k + 1
            /\ Len(Tests) = k
            /\ ~Tests[k].passed

\* C6: 'Fetch tasks from database': 200 with a JSON list of n rows is a
\* pass with message 'Retrieved n tasks'; any other status s is a failure
\* with message 'HTTP s', whatever the body.
C6_FetchTasks ==
    (Completed(5) /\ resp.kind = "http") =>
        /\ Len(Tests) = 5
        /\ Tests[5].name = "Fetch tasks from database"
        /\ (resp.status = HTTP_OK /\ resp.body.valid /\ resp.body.json.t = "list") =>
              /\ Tests[5].passed
              /\ Tests[5].message
                    = "Retrieved " \o ToStr(Len(resp.body.json.items)) \o " tasks"
              /\ Len(resp.body.json.items) = 1 => Tests[5].message = "Retrieved 1 tasks"
        /\ resp.status # HTTP_OK =>
              /\ ~Tests[5].passed
              /\ Tests[5].message = "HTTP " \o ToStr(resp.status)
              /\ resp.status = 500 => Tests[5].message = "HTTP 500"

C6_Witness ==
    /\ Completed(5)
    /\ resp.kind = "http" /\ resp.status = HTTP_OK
    /\ resp.body.valid /\ resp.body.json.t = "list" /\ Len(resp.body.json.items) = 1
    /\ Tests[5].passed
    /\ Tests[5].message = "Retrieved 1 tasks"

\* The shape create-task must answer with: data.tasks[0].id
CreateShape(v) ==
    /\ HasKey(v, "data")
    /\ HasKey(v.f.data, "tasks")
    /\ v.f.data.f.tasks.t = "list"
    /\ Len(v.f.data.f.tasks.items) > 0
    /\ HasKey(v.f.data.f.tasks.items[1], "id")

\* C7: a 200 answer that lacks the keys the probe reads without a default
\* ('data' for get-mention-data; 'data', 'tasks', a first task and its 'id'
\* for create-task) is recorded as failed, and the run goes on.
C7_UnexpectedShapeFails ==
    /\ (Completed(4) /\ resp.kind = "http" /\ resp.status = HTTP_OK
            /\ resp.body.valid /\ ~HasKey(resp.body.json, "data")) =>
          (phase # "crashed" /\ pc = 5 /\ Len(Tests) = 4 /\ ~Tests[4].passed)
    /\ (Completed(6) /\ resp.kind = "http" /\ resp.status = HTTP_OK
            /\ resp.body.valid /\ ~CreateShape(resp.body.json)) =>
          (phase # "crashed" /\ pc = 7 /\ Len(Tests) = 6 /\ ~Tests[6].passed)

C7_Witness ==
    /\ Completed(6)
    /\ resp.kind = "http" /\ resp.status = HTTP_OK /\ resp.body.valid
    /\ HasKey(resp.body.json, "data") /\ HasKey(resp.body.json.f.data, "tasks")
    /\ Len(resp.body.json.f.data.f.tasks.items) = 0
    /\ ~Tests[6].passed
    /\ Tests[4].message = "Unexpected response format"

TallyInv ==
    /\ results.passed = Cardinality({i \in 1..Len(Tests) : Tests[i].passed})
    /\ results.failed = Cardinality({i \in 1..Len(Tests) : ~Tests[i].passed})

\* C8: between probes and at the summary the two counters equal the numbers
\* of passed and of failed entries of results['tests'], and each recording
\* appends one entry and moves exactly one counter, by exactly 1.
C8_TallyMatchesTests ==
    /\ TallyInv
    /\ [][ /\ TallyInv'
           /\ results' # results =>
                /\ Len(results'.tests) = Len(Tests) + 1
                /\ SubSeq(results'.tests, 1, Len(Tests)) = Tests
                /\ \/ results'.passed = results.passed + 1 /\ results'.failed = results.failed
                   \/ results'.failed = results.failed + 1 /\ results'.passed = results.passed
         ]_vars

C8_Witness ==
    /\ phase = "ready"
    /\ pc = 5
    /\ results.passed = 2
    /\ results.failed = 2

\* C9: probes run one at a time in declaration order: requests are issued
\* in the order 1, 2, ..., a request is issued only when every earlier
\* probe has its result, and the names in results['tests'] follow the
\* declaration order whatever the outcomes.
C9_DeclarationOrder ==
    /\ issued = [i \in 1..Len(issued) |-> i]
    /\ Len(Tests) = IF phase = "waiting" THEN Len(issued) - 1 ELSE Len(issued)
    /\ \A i \in 1..Len(Tests) : Tests[i].name = ProbeName[i]
    /\ phase = "exited" => [i \in 1..Len(Tests) |-> Tests[i].name] = ProbeName

C9_Witness ==
    /\ phase = "exited"
    /\ ~Tests[1].passed
    /\ Tests[2].passed
    /\ ~Tests[3].passed
    /\ Tests[7].message = ""

QuickDone ==
    /\ phase = "exited"
    /\ exit = <<QuickExit>>
    /\ issued = <<1, 2, 3>>
    /\ out[Len(out)] = QuickLastLine

\* C10: quick_test.py keeps no tally and sets no exit code: whatever its
\* three requests come back with, no exception leaves the script, the three
\* probes run in order, the last line is printed and the status is 0.
C10_QuickAlwaysCompletes ==
    /\ [](/\ phase # "crashed"
          /\ results = [passed |-> 0, failed |-> 0, tests |-> <<>>]
          /\ phase = "exited" => QuickDone)
    /\ <>QuickDone

C10_Witness ==
    /\ phase = "exited"
    /\ exit = <<0>>
    /\ out = << "Testing PropMaster Backend APIs\n",
                QuickHeader[1], "   Error: " \o TimeoutText,
                QuickHeader[2], "   Status: 500",
                QuickHeader[3], "   Status: 200", "   Error: list index out of range",
                QuickLastLine >>

====
